---- MODULE Spec2Model ----
(***************************************************************************)
(* Model of quadruped_controller::BalanceController                        *)
(* (src/quadruped_controller/src/quadruped_controller/                     *)
(* balance_controller.cpp).                                                *)
(*                                                                         *)
(* Numbers: every double of the program is held as a fixed-point integer,  *)
(* the value v standing for v / Unit.  A product of two such numbers is    *)
(* therefore in units of 1 / Unit^2; comparisons against a bound are made  *)
(* exactly (floor / ceiling), never by rounding.                           *)
(* Vectors, matrices and the real_t buffers are functions on 0-based       *)
(* index ranges, as in the source.                                         *)
(***************************************************************************)
EXTENDS Integers, Sequences, FiniteSets, TLC

\* Fixed-point resolution of the model: the real 1.0 is the integer Unit.
Unit == 100

\* Number of control() calls explored on one controller instance.
MaxCalls == 2

----------------------------------------------------------------------------
(* Dimensions (balance_controller.hpp constants used all over the file).   *)

num_variables_qp_ == 12
num_constraints_qp_ == 20

(* Constructor arguments of the configuration under study:                 *)
(* mu = 0.6, mass = 10 kg, fzmin = 10 N, fzmax = 500 N.                    *)
mu_ == (6 * Unit) \div 10
mass_ == 10 * Unit
fzmin_ == 10 * Unit
fzmax_ == 500 * Unit

\* 9.81, the literal of lines 78 and 114.
GRAVITY == (981 * Unit) \div 100
g_ == [k \in 0..2 |-> IF k = 2 THEN 0 - GRAVITY ELSE 0]

\* The finite sentinels of frictionConeBounds (1000000.0 and -1000000.0).
upper == 1000000 * Unit
lower == 0 - (1000000 * Unit)

\* Feedforward gains kff(2) the controller may be constructed with:
\* 0, 0.2, 0.5, 1.0.
KffZVals == {0, (2 * Unit) \div 10, Unit \div 2, Unit}
\* Position gain kp_p(2) = 1.0 (kd_p multiplies a zero velocity error here).
kp_p_z == Unit

----------------------------------------------------------------------------
(* Small linear algebra on 0-based functions.                              *)

RECURSIVE SumTo(_, _)
SumTo(f, n) == IF n < 0 THEN 0 ELSE f[n] + SumTo(f, n - 1)

\* floor(v / Unit) and ceil(v / Unit)
FloorU(v) == v \div Unit
CeilU(v) == 0 - ((0 - v) \div Unit)

ZeroVec(n) == [k \in 0..(n - 1) |-> 0]

\* arma: M.t()
Transpose3(M) == [r \in 0..2 |-> [c \in 0..2 |-> M[c][r]]]

\* arma: M * v for a 3x3 M and a 3-vector v (both fixed-point; exact, since
\* the rotations used have entries in {-1, 0, 1}).
MatVec3(M, v) ==
  [r \in 0..2 |-> (M[r][0] * v[0] + M[r][1] * v[1] + M[r][2] * v[2]) \div Unit]

\* arma: v.rows(first, first + 2)
Rows3(v, first) == [k \in 0..2 |-> v[first + k]]

----------------------------------------------------------------------------
(* copy_to_real_t / copy_from_real_t                                       *)

\* copy_to_real_t(const vec&, real_t*): target[i] = source(i)
copy_to_real_t_vec(source, n) == [i \in 0..(n - 1) |-> source[i]]

\* copy_to_real_t(const mat&, real_t*): row-major, target[count++] = source(i, j)
copy_to_real_t_mat(source, n_rows, n_cols) ==
  [count \in 0..(n_rows * n_cols - 1) |->
     source[count \div n_cols][count % n_cols]]

\* copy_from_real_t(source, n_rows): target(i) = source[i]
copy_from_real_t(source, n_rows) == [i \in 0..(n_rows - 1) |-> source[i]]

----------------------------------------------------------------------------
(* Friction cone model.                                                    *)

\* const mat Cf (5x3), lines 244-248
Cf(mu) ==
  << <<Unit, 0, 0 - mu>>,
     <<0, Unit, 0 - mu>>,
     <<0, Unit, mu>>,
     <<Unit, 0, mu>>,
     <<0, 0, Unit>> >>

\* C.submat(r0, c0, r0 + 4, c0 + 2) = Cf applied to a zero-filled C
SubmatCf(C, r0, c0, mu) ==
  [r \in 0..(num_constraints_qp_ - 1) |->
    [c \in 0..(num_variables_qp_ - 1) |->
       IF r >= r0 /\ r <= r0 + 4 /\ c >= c0 /\ c <= c0 + 2
         THEN Cf(mu)[r - r0 + 1][c - c0 + 1]
         ELSE C[r][c]]]

ZeroMat(n_rows, n_cols) == [r \in 0..(n_rows - 1) |-> [c \in 0..(n_cols - 1) |-> 0]]

\* A plausible slip: the last block written one column group too far left.
frictionConeConstraint_misplaced(mu) ==
  SubmatCf(SubmatCf(SubmatCf(SubmatCf(
    ZeroMat(num_constraints_qp_, num_variables_qp_),
      0, 0, mu), 5, 3, mu), 10, 6, mu), 15, 6, mu)

\* mat BalanceController::frictionConeConstraint() const, lines 240-258
frictionConeConstraint(mu) ==
  SubmatCf(SubmatCf(SubmatCf(SubmatCf(
    ZeroMat(num_constraints_qp_, num_variables_qp_),
      0, 0, mu), 5, 3, mu), 10, 6, mu), 15, 9, mu)

\* member C_, initialised once in the constructor (line 90)
C_ == frictionConeConstraint(mu_)

\* const vec lbf / ubf, lines 266-267 (1-based sequences of 5 entries)
lbf_swapped(fzmin) == <<lower, 0, lower, 0, fzmin>>
lbf(fzmin) == <<lower, lower, 0, 0, fzmin>>
ubf(fzmax) == <<0, 0, upper, upper, fzmax>>


\* A plausible slip: the swing branch missing, every leg given stance rows.
LegRows_noswing(state, fzmin, fzmax) == [lb |-> lbf(fzmin), ub |-> ubf(fzmax)]

\* A plausible slip: the lower stance rows written in the wrong order.
LegRows_swapped(state, fzmin, fzmax) ==
  IF state = "swing"
    THEN [lb |-> <<0, 0, 0, 0, 0>>, ub |-> <<0, 0, 0, 0, 0>>]
    ELSE [lb |-> lbf_swapped(fzmin), ub |-> ubf(fzmax)]

\* Body of the loop, lines 278-287: the five rows one leg receives.
LegRows(state, fzmin, fzmax) ==
  IF state = "swing"
    THEN [lb |-> <<0, 0, 0, 0, 0>>, ub |-> <<0, 0, 0, 0, 0>>]
    ELSE [lb |-> lbf(fzmin), ub |-> ubf(fzmax)]

\* v.rows(row_start, row_start + 4) = rows5
AssignRows(v, row_start, rows5) ==
  [r \in DOMAIN v |->
     IF r >= row_start /\ r <= row_start + 4 THEN rows5[r - row_start + 1] ELSE v[r]]

\* A plausible slip: gait_map[leg_name] instead of gait_map.at(leg_name), which
\* inserts a default (stance) entry for a missing leg instead of throwing.
RECURSIVE BoundsLoop_default(_, _, _, _, _, _)
BoundsLoop_default(names, gait_map, fzmin, fzmax, row_start, acc) ==
  IF names = <<>> THEN acc
  ELSE IF row_start + 4 >= num_constraints_qp_
    THEN BoundsLoop_default(Tail(names), gait_map, fzmin, fzmax, row_start + 5,
                            [acc EXCEPT !.oob = TRUE])
  ELSE
    LET st == IF Head(names) \in DOMAIN gait_map
                THEN gait_map[Head(names)] ELSE "stance"
        rows == LegRows(st, fzmin, fzmax)
    IN  BoundsLoop_default(Tail(names), gait_map, fzmin, fzmax, row_start + 5,
          [acc EXCEPT !.lbC = AssignRows(@, row_start, rows.lb),
                      !.ubC = AssignRows(@, row_start, rows.ub),
                      !.writes = [r \in DOMAIN @ |->
                         IF r >= row_start /\ r <= row_start + 4
                           THEN @[r] + 1 ELSE @[r]]])

\* The loop of frictionConeBounds, lines 273-291.  acc carries the local
\* vectors lbC, ubC, the number of assignments each row has received, whether
\* gait_map.at() threw std::out_of_range, and whether rows() was addressed
\* past the end of the 20-row vectors.
RECURSIVE BoundsLoop(_, _, _, _, _, _)
BoundsLoop(names, gait_map, fzmin, fzmax, row_start, acc) ==
  IF names = <<>> THEN acc
  ELSE IF Head(names) \notin DOMAIN gait_map
    THEN [acc EXCEPT !.threw = TRUE]
  ELSE IF row_start + 4 >= num_constraints_qp_
    THEN BoundsLoop(Tail(names), gait_map, fzmin, fzmax, row_start + 5,
                    [acc EXCEPT !.oob = TRUE])
  ELSE
    LET rows == LegRows(gait_map[Head(names)], fzmin, fzmax)
    IN  BoundsLoop(Tail(names), gait_map, fzmin, fzmax, row_start + 5,
          [acc EXCEPT !.lbC = AssignRows(@, row_start, rows.lb),
                      !.ubC = AssignRows(@, row_start, rows.ub),
                      !.writes = [r \in DOMAIN @ |->
                         IF r >= row_start /\ r <= row_start + 4
                           THEN @[r] + 1 ELSE @[r]]])

\* void BalanceController::frictionConeBounds(const GaitMap&) const, up to the
\* copies of lines 303-305.  junk is the indeterminate content of the freshly
\* allocated vec lbC / ubC (lines 270-271).
frictionConeBounds(leg_names, gait_map, fzmin, fzmax, junk) ==
  BoundsLoop(leg_names, gait_map, fzmin, fzmax, 0,
    [threw |-> FALSE, oob |-> FALSE,
     lbC |-> [r \in 0..(num_constraints_qp_ - 1) |-> junk],
     ubC |-> [r \in 0..(num_constraints_qp_ - 1) |-> junk],
     writes |-> [r \in 0..(num_constraints_qp_ - 1) |-> 0]])

----------------------------------------------------------------------------
(* Feedback law and dynamics (linear part).                                *)

\* lines 111-114 with xdot = xdot_d = 0: xddot_d = kp_p % (x_d - x), then
\* xddot_d(2) += kff_(2) * mass_ * 9.81
xddot_d(x_d, x, kff_z, mass) ==
  [k \in 0..2 |->
     ((kp_p_z * (x_d[k] - x[k])) \div Unit)
       + (IF k = 2 THEN (kff_z * mass * GRAVITY) \div (Unit * Unit) ELSE 0)]

\* dynamics(), line 233: b.rows(0, 2) = mass_ * (xddot_d + g_)
dynamics_b(mass, xdd) == [k \in 0..2 |-> (mass * (xdd[k] + g_[k])) \div Unit]

----------------------------------------------------------------------------
(* World-to-body transform, lines 195-203.                                 *)

\* A plausible slip: Rwb used instead of Rwb.t().
BodyForce_notransposed(Rwb, Rwb_d, fw) ==
  [k \in 0..(num_variables_qp_ - 1) |->
     0 - MatVec3(Rwb, Rows3(fw, 3 * (k \div 3)))[k % 3]]

BodyForce(Rwb, Rwb_d, fw) ==
  LET Rbw == Transpose3(Rwb)
      fb == [k \in 0..(num_variables_qp_ - 1) |->
               MatVec3(Rbw, Rows3(fw, 3 * (k \div 3)))[k % 3]]
  IN  [k \in 0..(num_variables_qp_ - 1) |-> (0 - 1) * fb[k]]


----------------------------------------------------------------------------
(* The external QP solver (qpOASES), seen through the calls of lines       *)
(* 154-186.  It is a black box: when it reports a solution, the solution   *)
(* is some point x with lbC <= C x <= ubC, read from the buffers it was    *)
(* handed.  The points it may report are drawn from a finite sample of     *)
(* force vectors that contains feasible and infeasible forces.             *)

Force(fx, fy, fz) == [k \in 0..2 |-> IF k = 0 THEN fx ELSE IF k = 1 THEN fy ELSE fz]

ZeroForce == Force(0, 0, 0)
\* Two families of forces inside the cone, a different force for each foot i
GoodForce(i) == Force((i + 1) * Unit, 0 - 2 * Unit, (10 + i) * Unit)
AltForce(i) == Force(0 - 5 * Unit, (i + 1) * Unit, (20 + 10 * i) * Unit)
\* Forces outside the cone or outside [fzmin, fzmax]
BadForces == {Force(7 * Unit, 0, 10 * Unit), Force(0 - 7 * Unit, 0, 10 * Unit),
              Force(0, 7 * Unit, 10 * Unit), Force(0, 0 - 7 * Unit, 10 * Unit),
              Force(0, 0, 5 * Unit), Force(0, 0, 600 * Unit)}

\* The 12-vector holding force f[i] at block [3i, 3i + 2]
Stack(f) == [k \in 0..(num_variables_qp_ - 1) |-> f[k \div 3][k % 3]]

Candidates ==
  {Stack([i \in 0..3 |-> IF i \in S THEN GoodForce(i) ELSE ZeroForce]) :
     S \in SUBSET (0..3)}
  \cup {Stack([i \in 0..3 |-> IF i \in S THEN AltForce(i) ELSE ZeroForce]) :
          S \in SUBSET (0..3)}
  \cup {Stack([i \in 0..3 |-> IF i = j THEN bad
                               ELSE IF others THEN GoodForce(i) ELSE ZeroForce]) :
          j \in 0..3, bad \in BadForces, others \in BOOLEAN}

\* Row r of C x, C read row-major from the buffer qp_C (units 1 / Unit^2)
RowValue(qC, r, x) ==
  SumTo([c \in 0..(num_variables_qp_ - 1) |-> qC[r * num_variables_qp_ + c] * x[c]],
        num_variables_qp_ - 1)

\* lbC <= C x <= ubC
Feasible(qC, lbC, ubC, x) ==
  \A r \in 0..(num_constraints_qp_ - 1) :
     /\ lbC[r] <= FloorU(RowValue(qC, r, x))
     /\ CeilU(RowValue(qC, r, x)) <= ubC[r]

FeasibleSet(qC, lbC, ubC) == {x \in Candidates : Feasible(qC, lbC, ubC, x)}


----------------------------------------------------------------------------
(* Inputs of one control cycle.                                            *)

\* The leg list of the configuration under study, and lists of other
\* lengths the constructor accepts as well (it checks no length).
FourLegs == <<"RL", "FL", "RR", "FR">>
LegLists == {SubSeq(FourLegs, 1, 3), FourLegs, FourLegs \o <<"XL">>}

Range(seq) == {seq[i] : i \in DOMAIN seq}

\* Contact schedules: every schedule with an entry for each configured leg,
\* and the all-stance and all-swing schedules lacking the entry of one leg.
GaitMaps(leg_names) ==
  [Range(leg_names) -> {"stance", "swing"}]
  \cup {[m \in Range(leg_names) \ {n} |-> st] :
          n \in Range(leg_names), st \in {"stance", "swing"}}

Covers(gait_map, leg_names) == Range(leg_names) \subseteq DOMAIN gait_map

M3(t) == [r \in 0..2 |-> [c \in 0..2 |-> t[r + 1][c + 1] * Unit]]
\* Body orientations: the identity and a quarter turn about z.
Rots == {M3(<< <<1, 0, 0>>, <<0, 1, 0>>, <<0, 0, 1>> >>),
         M3(<< <<0, 0 - 1, 0>>, <<1, 0, 0>>, <<0, 0, 1>> >>)}

\* The current position x is the origin; desired positions x_d lie on a grid
\* of step 0.5 around it.
x0 == Force(0, 0, 0)
XdVals == {Force(a, b, c) : a, b, c \in {0 - (Unit \div 2), 0, Unit \div 2}}

\* Indeterminate contents of memory that was never written.
JunkVals == {0, 0 - 7 * Unit}
\* The local vectors lbC, ubC start indeterminate; when the loop overwrites
\* all 20 rows their first content cannot show, and one value stands for all.
JunkFor(leg_names) ==
  IF 5 * Len(leg_names) >= num_constraints_qp_ THEN {0} ELSE JunkVals

----------------------------------------------------------------------------
(* The solver's answers, tabulated once for the problems the controller    *)
(* can hand it (the table only saves recomputation: any other problem is   *)
(* answered by FeasibleSet directly).                                      *)

KnownBounds ==
  {[lbC |-> b.lbC, ubC |-> b.ubC] :
     b \in {frictionConeBounds(L, gm, fzmin_, fzmax_, junk) :
              L \in LegLists,
              gm \in UNION {[Range(K) -> {"stance", "swing"}] : K \in LegLists},
              junk \in JunkVals}}

\* Line 303, copy_to_real_t(C_, qp_C_): C_ is const, so the copy has one value.
qp_C_of_C_ == copy_to_real_t_mat(C_, num_constraints_qp_, num_variables_qp_)

SolverTable == [b \in KnownBounds |-> FeasibleSet(qp_C_of_C_, b.lbC, b.ubC)]

Solutions(qC, lbC, ubC) ==
  IF qC = qp_C_of_C_ /\ [lbC |-> lbC, ubC |-> ubC] \in DOMAIN SolverTable
    THEN SolverTable[[lbC |-> lbC, ubC |-> ubC]]
    ELSE FeasibleSet(qC, lbC, ubC)

----------------------------------------------------------------------------
(* State.                                                                  *)

VARIABLES
  leg_names_,   \* constructor argument leg_names
  kff_z,        \* constructor argument kff(2)
  arma_checks,  \* whether the build keeps Armadillo's index checks
  qp_C_,        \* real_t buffers handed to the solver
  qp_lbC_,
  qp_ubC_,
  initialised,  \* QPSolver_.isInitialised()
  calls,        \* control() calls made so far
  gait,         \* gait_map of the latest call
  Rcur,         \* Rwb of the latest call
  xd,           \* x_d of the latest call that built b
  b_dyn,        \* rows 0..2 of b of the latest call that built it
  b_built,      \* whether b has been built
  outcome,      \* how the latest call ended
  solver_op,    \* the solver entry point the latest call used
  fw,           \* world-frame solution read from the solver in the latest call
  result,       \* vector returned by the latest call that returned
  errors,       \* ROS_ERROR events of the latest call
  transformed,  \* whether the latest call ran lines 195-203
  rowWrites,    \* per bound row, assignments made by the latest call
  oob,          \* whether the latest call addressed a bound row >= 20
  failed        \* whether some earlier or the latest call ended in a solver failure

vars == <<leg_names_, kff_z, arma_checks, qp_C_, qp_lbC_, qp_ubC_, initialised,
          calls, gait, Rcur, xd, b_dyn, b_built, outcome, solver_op, fw, result, errors,
          transformed, rowWrites, oob, failed>>

config == <<leg_names_, kff_z, arma_checks>>

\* State after construction: buffers not yet written, solver not initialised.
InitWith(lists, checks, kffs) ==
  /\ leg_names_ \in lists
  /\ kff_z \in kffs
  /\ arma_checks \in checks
  /\ \E junk \in JunkVals :
       /\ qp_C_ = [k \in 0..(num_constraints_qp_ * num_variables_qp_ - 1) |-> junk]
       /\ qp_lbC_ = [k \in 0..(num_constraints_qp_ - 1) |-> junk]
       /\ qp_ubC_ = [k \in 0..(num_constraints_qp_ - 1) |-> junk]
  /\ initialised = FALSE
  /\ calls = 0
  /\ gait = << >>
  /\ Rcur = M3(<< <<1, 0, 0>>, <<0, 1, 0>>, <<0, 0, 1>> >>)
  /\ xd = x0
  /\ b_dyn = ZeroVec(3)
  /\ b_built = FALSE
  /\ outcome = "none"
  /\ solver_op = "none"
  /\ fw = ZeroVec(num_variables_qp_)
  /\ result = ZeroVec(num_variables_qp_)
  /\ errors = 0
  /\ transformed = FALSE
  /\ rowWrites = [r \in 0..(num_constraints_qp_ - 1) |-> 0]
  /\ oob = FALSE
  /\ failed = FALSE

Init == InitWith({FourLegs}, {TRUE}, {Unit})
InitLegs == InitWith(LegLists, BOOLEAN, {Unit})
InitFF == InitWith({FourLegs}, {TRUE}, KffZVals)


----------------------------------------------------------------------------
(* control()                                                               *)

\* A plausible slip: the solver cold-initialised in every call.
SolverOp_always_init(is_initialised) == "init"

\* lines 154-171: init() on a solver that is not initialised, else hotstart()
SolverOp(is_initialised) == IF ~is_initialised THEN "init" ELSE "hotstart"

\* A plausible slip: a failure branch without its return, falling through to
\* the transform of lines 195-203.
OnFailure_fallthrough(Rwb, Rwb_d, fw0) ==
  [fw |-> fw0, result |-> BodyForce(Rwb, Rwb_d, fw0), errors |-> 1,
   transformed |-> TRUE]

\* lines 159-164, 173-177, 188-192: one ROS_ERROR, return fw (still zero)
OnFailure(Rwb, Rwb_d, fw0) ==
  [fw |-> fw0, result |-> fw0, errors |-> 1, transformed |-> FALSE]

\* A plausible slip: the primal solution never read, fw left at its zeros.
OnSuccess_unread(Rwb, Rwb_d, fw0, qp_xOpt) ==
  [fw |-> fw0, result |-> BodyForce(Rwb, Rwb_d, fw0), errors |-> 0,
   transformed |-> TRUE]

\* lines 182-186 and 195-203: read the primal solution, transform, negate
OnSuccess(Rwb, Rwb_d, fw0, qp_xOpt) ==
  LET fw1 == copy_from_real_t(qp_xOpt, num_variables_qp_)
  IN  [fw |-> fw1, result |-> BodyForce(Rwb, Rwb_d, fw1), errors |-> 0,
       transformed |-> TRUE]

\* The call leaves by an exception raised inside frictionConeBounds (line 104):
\* nothing after the loop runs, no member is written.
ControlThrows(gait_map, Rwb, fcb) ==
  /\ gait' = gait_map
  /\ Rcur' = Rwb
  /\ outcome' = "threw"
  /\ solver_op' = "none"
  /\ errors' = 0
  /\ transformed' = FALSE
  /\ rowWrites' = fcb.writes
  /\ oob' = fcb.oob
  /\ UNCHANGED <<qp_C_, qp_lbC_, qp_ubC_, initialised, xd, b_dyn, b_built, fw,
               result, failed>>

\* The call runs lines 104-203.  ret_ok: init()/hotstart() returned
\* SUCCESSFUL_RETURN; is_solved: QPSolver_.isSolved(); keeps: whether a failed
\* init() leaves the solver initialised; qp_xOpt: the primal solution.
ControlRuns(gait_map, Rwb, Rwb_d, x_d, fcb, ret_ok, is_solved, keeps, qp_xOpt) ==
  LET fw0 == ZeroVec(num_variables_qp_)
      op == SolverOp(initialised)
      r == IF ret_ok /\ is_solved
             THEN OnSuccess(Rwb, Rwb_d, fw0, qp_xOpt)
             ELSE OnFailure(Rwb, Rwb_d, fw0)
  IN
  /\ gait' = gait_map
  /\ Rcur' = Rwb
  /\ qp_C_' = qp_C_of_C_
  /\ qp_lbC_' = copy_to_real_t_vec(fcb.lbC, num_constraints_qp_)
  /\ qp_ubC_' = copy_to_real_t_vec(fcb.ubC, num_constraints_qp_)
  /\ rowWrites' = fcb.writes
  /\ oob' = fcb.oob
  /\ xd' = x_d
  /\ b_dyn' = dynamics_b(mass_, xddot_d(x_d, x0, kff_z, mass_))
  /\ b_built' = TRUE
  /\ solver_op' = op
  /\ initialised' = IF op = "hotstart" \/ ret_ok THEN TRUE ELSE keeps
  /\ outcome' = IF ~ret_ok THEN (IF op = "init" THEN "init_failed" ELSE "hotstart_failed")
                ELSE IF ~is_solved THEN "not_solved" ELSE "solved"
  /\ fw' = r.fw
  /\ result' = r.result
  /\ errors' = r.errors
  /\ transformed' = r.transformed
  /\ failed' = (failed \/ ~(ret_ok /\ is_solved))

\* frictionConeBounds for the configuration's fzmin, fzmax, tabulated once over
\* the leg lists, schedules and junk values the calls draw from.
BoundsTable ==
  [k \in UNION {{<<L, gm, junk>> : gm \in GaitMaps(L), junk \in JunkVals} :
                  L \in LegLists} |->
     frictionConeBounds(k[1], k[2], fzmin_, fzmax_, k[3])]

\* vec BalanceController::control(...) const, lines 98-204.  The desired
\* position of these calls is the current one (x_d = x).
Control ==
  /\ calls < MaxCalls
  /\ calls' = calls + 1
  /\ UNCHANGED config
  /\ \E gait_map \in GaitMaps(leg_names_), Rwb \in Rots, junk \in JunkFor(leg_names_) :
       LET fcb == BoundsTable[<<leg_names_, gait_map, junk>>]
       IN  IF fcb.threw \/ (fcb.oob /\ arma_checks)
             THEN ControlThrows(gait_map, Rwb, fcb)
             ELSE \E Rwb_d \in Rots, x_d \in {x0} :
                    \/ \E keeps \in BOOLEAN :
                         ControlRuns(gait_map, Rwb, Rwb_d, x_d, fcb,
                                     FALSE, FALSE, keeps, ZeroVec(num_variables_qp_))
                    \/ ControlRuns(gait_map, Rwb, Rwb_d, x_d, fcb,
                                   TRUE, FALSE, TRUE, ZeroVec(num_variables_qp_))
                    \/ \E qp_xOpt \in Solutions(
                            qp_C_of_C_,
                            copy_to_real_t_vec(fcb.lbC, num_constraints_qp_),
                            copy_to_real_t_vec(fcb.ubC, num_constraints_qp_)) :
                         ControlRuns(gait_map, Rwb, Rwb_d, x_d, fcb,
                                     TRUE, TRUE, TRUE, qp_xOpt)

\* The feedback law and the linear rows of b on their own (lines 111-114 and
\* 233 of control() / dynamics()), applied to one desired position.
Feedback ==
  /\ ~b_built
  /\ \E x_d \in XdVals :
       /\ xd' = x_d
       /\ b_dyn' = dynamics_b(mass_, xddot_d(x_d, x0, kff_z, mass_))
  /\ b_built' = TRUE
  /\ UNCHANGED <<leg_names_, kff_z, arma_checks, qp_C_, qp_lbC_, qp_ubC_,
                 initialised, calls, gait, Rcur, outcome, solver_op, fw, result,
                 errors, transformed, rowWrites, oob, failed>>

Next == Control
NextFF == Feedback

Spec == Init /\ [][Next]_vars
SpecLegs == InitLegs /\ [][Next]_vars
SpecFF == InitFF /\ [][NextFF]_vars


----------------------------------------------------------------------------
(* Vocabulary of the properties.                                           *)

\* The latest call reached the solver (it did not leave by an exception).
Ran == outcome \in {"init_failed", "hotstart_failed", "not_solved", "solved"}
SolverFailed == outcome \in {"init_failed", "hotstart_failed", "not_solved"}

\* Leg i (0-based index in the configured list) is in stance / swing in the
\* schedule of the latest call.
LegIs(g, i, st) ==
  /\ i + 1 \in DOMAIN leg_names_
  /\ leg_names_[i + 1] \in DOMAIN g
  /\ g[leg_names_[i + 1]] = st

Abs(v) == IF v < 0 THEN 0 - v ELSE v

\* (fx, fy, fz) = x[3i .. 3i+2] lies in the friction pyramid and the normal band
InCone(x, i) ==
  /\ Abs(x[3 * i]) * Unit <= mu_ * x[3 * i + 2]
  /\ Abs(x[3 * i + 1]) * Unit <= mu_ * x[3 * i + 2]
  /\ fzmin_ <= x[3 * i + 2]
  /\ x[3 * i + 2] <= fzmax_

\* Bound rows a stance leg must have, written out
StanceLower == <<0 - 1000000 * Unit, 0 - 1000000 * Unit, 0, 0, 10 * Unit>>
StanceUpper == <<0, 0, 1000000 * Unit, 1000000 * Unit, 500 * Unit>>

\* Entry (r, c) of the 20x12 friction-cone matrix, written out: the block
\* {fx - mu fz, fy - mu fz, fy + mu fz, fx + mu fz, fz} on the diagonal.
ConeEntry(r, c) ==
  IF r \div 5 # c \div 3 THEN 0
  ELSE LET k == r % 5
           j == c % 3
       IN  IF j = 0 THEN (IF k \in {0, 3} THEN Unit ELSE 0)
           ELSE IF j = 1 THEN (IF k \in {1, 2} THEN Unit ELSE 0)
           ELSE (IF k \in {0, 1} THEN 0 - mu_ ELSE IF k \in {2, 3} THEN mu_ ELSE Unit)

\* Component k of -(R^T f) for the force f = x[3i .. 3i+2], times Unit
NegRotT(R, x, i, k) ==
  0 - (R[0][k] * x[3 * i] + R[1][k] * x[3 * i + 1] + R[2][k] * x[3 * i + 2])

QuarterTurn == M3(<< <<0, 0 - 1, 0>>, <<1, 0, 0>>, <<0, 0, 1>> >>)

----------------------------------------------------------------------------
\* C1: in every cycle that returns, whatever happened in earlier cycles and
\* whether the solve succeeded or failed, the three components of the
\* returned force of every leg the current schedule marks as swing are zero.
C1_SwingForceZero ==
  Ran => \A i \in 0..3 :
           LegIs(gait, i, "swing") => \A k \in 0..2 : result[3 * i + k] = 0

\* A successful solve, after a failed cycle, with a swing leg beside a stance
\* leg that carries a force.
C1_Witness ==
  /\ outcome = "solved"
  /\ failed
  /\ \E i, j \in 0..3 :
       /\ LegIs(gait, i, "swing")
       /\ LegIs(gait, j, "stance")
       /\ result[3 * j + 2] # 0

\* C2: a cycle in which the solver fails (init or hotstart not successful, or
\* not solved) returns the all-zero 12-vector, emits exactly one error event,
\* returns rather than throws, and does not run the transform.
C2_FailureReturnsZero ==
  SolverFailed =>
    /\ result = [k \in 0..11 |-> 0]
    /\ errors = 1
    /\ ~transformed

\* A failed warm start in the second call.
C2_Witness == outcome = "hotstart_failed" /\ errors = 1 /\ calls = 2

\* C3 as stated: the first call performs init and every later call performs
\* hotstart.
C3_FirstCallColdThenWarm ==
  /\ calls = 1 => solver_op = "init"
  /\ calls > 1 => solver_op = "hotstart"

\* C3 amended: a call that reaches the solver performs init exactly when the
\* solver reports that it is not initialised, and hotstart otherwise; once the
\* solver is initialised it stays so, and no later call performs init.
C3_ColdOnlyWhileUninitialised ==
  [][ /\ solver_op' = "init" => ~initialised
      /\ solver_op' = "hotstart" => initialised
      /\ initialised => initialised' ]_vars

\* A cold initialisation in the second call (the first one threw, or its
\* init failed and left the solver uninitialised).
C3_Witness == calls = 2 /\ solver_op = "init"

C5_MissingLegThrows ==
  [][ (calls' = calls + 1 /\ ~Covers(gait', leg_names_)) =>
        /\ outcome' = "threw"
        /\ solver_op' = "none"
        /\ result' = result
        /\ initialised' = initialised
        /\ qp_lbC_' = qp_lbC_
        /\ qp_ubC_' = qp_ubC_ ]_vars

\* A throwing call after a call that had filled the buffers.
C5_Witness ==
  /\ outcome = "threw"
  /\ ~Covers(gait, leg_names_)
  /\ b_built
  /\ qp_lbC_[4] = 10 * Unit

\* C6: once a call has passed frictionConeBounds, the buffer handed to the
\* solver holds the 20x12 matrix with the 5x3 cone block at rows [5i, 5i+4],
\* columns [3i, 3i+2] and zero elsewhere, in every later state.
C6_ConstraintMatrixConstant ==
  b_built => \A r \in 0..19, c \in 0..11 : qp_C_[12 * r + c] = ConeEntry(r, c)

\* Two calls with different outcomes and a schedule with a swing leg.
C6_Witness ==
  /\ calls = 2
  /\ failed
  /\ outcome = "solved"
  /\ \E i \in 0..3 : LegIs(gait, i, "swing")

\* C7: in every cycle that reaches the solver, each stance leg i has bound
\* rows [5i, 5i+4] = {-inf, -inf, 0, 0, fzmin} / {0, 0, inf, inf, fzmax}, and
\* every x with lbC <= C x <= ubC has its block [3i, 3i+2] inside the cone:
\* |fx| <= mu fz, |fy| <= mu fz, fzmin <= fz <= fzmax.
C7_StanceInCone ==
  Ran => \A i \in 0..3 :
           LegIs(gait, i, "stance") =>
             /\ \A k \in 0..4 : /\ qp_lbC_[5 * i + k] = StanceLower[k + 1]
                                /\ qp_ubC_[5 * i + k] = StanceUpper[k + 1]
             /\ \A x \in Solutions(qp_C_, qp_lbC_, qp_ubC_) : InCone(x, i)
             /\ outcome = "solved" => InCone(fw, i)

\* A solved cycle with three stance legs and one swing leg.
C7_Witness ==
  /\ outcome = "solved"
  /\ LegIs(gait, 0, "stance") /\ LegIs(gait, 1, "swing")
  /\ LegIs(gait, 2, "stance") /\ LegIs(gait, 3, "stance")
  /\ fw[2] >= fzmin_

\* C8: when the solve succeeds, block i of the returned vector is
\* -(Rwb^T f_world[3i .. 3i+2]) for the Rwb of this call, foot by foot.
C8_BodyFrameTransform ==
  outcome = "solved" =>
    \A i \in 0..3, k \in 0..2 : result[3 * i + k] * Unit = NegRotT(Rcur, fw, i, k)

\* A solved cycle under the quarter turn, all legs loaded with different
\* forces.
C8_Witness ==
  /\ outcome = "solved"
  /\ Rcur = QuarterTurn
  /\ \A i \in 0..3 : fw[3 * i + 2] > 0
  /\ fw[0] # fw[3]
  /\ result[0] # 0 - fw[0]

----------------------------------------------------------------------------
(* C9: the vertical balance.                                               *)

\* With all legs in stance, no horizontal or angular demand and a vanishing
\* regularisation W, the QP minimises (sum fz - b_z)^2 over
\* fzmin <= fz_i <= fzmax: the optimal sum of fz is b_z clamped to
\* [4 fzmin, 4 fzmax].
OptimalFzSum(b_z) ==
  IF b_z < 4 * fzmin_ THEN 4 * fzmin_
  ELSE IF b_z > 4 * fzmax_ THEN 4 * fzmax_ ELSE b_z

\* mass * 9.81
Weight == (mass_ * GRAVITY) \div Unit

\* C9: with zero error (desired = current, at rest) the target b handed to
\* the QP makes the optimal sum of fz equal the weight mass * 9.81 (to within
\* 1 N).
C9_StaticWeightBalanced ==
  (b_built /\ xd = x0) => Abs(OptimalFzSum(b_dyn[2]) - Weight) <= Unit

----------------------------------------------------------------------------
\* C10: for every accepted leg list and covering schedule, every one of the
\* 20 bound rows is assigned exactly once and no row index >= 20 is addressed.
C10_RowsAssignedOnce ==
  (calls > 0 /\ Covers(gait, leg_names_)) =>
    /\ \A r \in 0..19 : rowWrites[r] = 1
    /\ ~oob

====
